---- MODULE Spec2Model ----
(***************************************************************************)
(* SmartCache<T> (src/src/smart-cache.ts), the cached file I/O of          *)
(* ContextManager, run to completion and with calls in flight, and its     *)
(* loadContext and updateContext (src/src/context-manager.ts,              *)
(* src/src/utils.ts).                                                      *)
(*                                                                         *)
(* Strings that the code inspects character by character (cache keys,      *)
(* file paths, RegExp sources) are sequences of one-character strings.     *)
(* File contents and cached values are sequences of opaque text tokens.    *)
(***************************************************************************)
EXTENDS Integers, Sequences, FiniteSets, TLC

VARIABLES
    cache,     \* SmartCache.cache: the Map, as its entries in insertion order
    maxSize,   \* SmartCache.maxSize
    ttl,       \* SmartCache.ttl (default TTL, milliseconds)
    now,       \* Date.now()
    ticks,     \* how many times the clock has been advanced
    contextDir,\* ContextManager.contextDir
    files,     \* the file system: path -> content, or Absent
    last,      \* the last call made: operation, argument, outcome
    pending    \* the _readFile / _writeFile / _appendFile calls in flight

vars == <<cache, maxSize, ttl, now, ticks, contextDir, files, last, pending>>

----------------------------------------------------------------------------
(* Bounds of the model *)

MaxTicks == 2
MaxCapacity == 2
MaxFileLen == 2
MaxInFlight == 2

(* Program constants *)

FileCacheMaxSize == 50
FileCacheTTL == 10 * 60 * 1000

----------------------------------------------------------------------------
(* Inputs *)

\* Cache keys given to SmartCache directly.
KeyPlain == <<"f", "m">>
KeyDot == <<"f", ".", "m">>
KeyPlus == <<"f", "+", "m">>
Keys == {KeyPlain, KeyDot, KeyPlus}

\* Directories the process may be started in ("+" is an ordinary character
\* of a directory name) and the file names read and written under them.
DirPlain == <<"c">>
DirPlus == <<"c", "+">>
DirPlusPlus == <<"c", "+", "+">>
ContextDirs == {DirPlain, DirPlus, DirPlusPlus}
NameDot == <<"a", ".", "m">>
NameAlt == <<"a", "x", "m">>
FileNames == {NameDot, NameAlt}

\* The context files: PROJECT_DNA.md, CURRENT_STATE.md, ACTIVE_CONTEXT.md and
\* SESSION_LOG.md, each abbreviated to its first letter.
ProjectDnaMd == <<"P">>
CurrentStateMd == <<"C">>
ActiveContextMd == <<"A">>
SessionLogMd == <<"S">>
UpdatedFileNames == {CurrentStateMd, ActiveContextMd, SessionLogMd}
ContextFileNames == {ProjectDnaMd} \cup UpdatedFileNames

\* The patterns directory and the one pattern file it may hold.
PatternsDir == <<"p">>
PatternMd == <<"p", "/", "x">>

\* Text tokens and the values / contents built from them.
TokenA == <<"A">>
TokenB == <<"B">>
Values == {TokenA, TokenB}
Texts == {TokenA}

\* getDefaultProjectDNA(), and a PROJECT_DNA.md the user wrote
DefaultProjectDNA == <<"template">>
UserProjectDNA == <<"user">>

\* what the file system holds at the path of a directory
Directory == <<"dir">>

\* customTTL argument of set; Undefined is the omitted argument.
Undefined == -1
CustomTTLs == {Undefined, 0, 1}
DefaultTTLs == {1, 2}

Absent == <<"ENOENT">>
NoVal == <<>>

----------------------------------------------------------------------------
(* RegExp: source text -> compiled pattern -> test(key) *)

SyntaxError == <<[ch |-> "SyntaxError", plus |-> FALSE]>>

\* The atoms of a pattern body: each character is an atom; "+" quantifies
\* the atom before it and is a SyntaxError ("Nothing to repeat") when there
\* is none or when that atom is already quantified.
RECURSIVE ParseAtoms(_, _)
ParseAtoms(src, acc) ==
    IF src = <<>> THEN acc
    ELSE IF Head(src) = "+"
         THEN IF acc = <<>> \/ acc[Len(acc)].plus
              THEN SyntaxError
              ELSE ParseAtoms(Tail(src),
                              [acc EXCEPT ![Len(acc)].plus = TRUE])
         ELSE ParseAtoms(Tail(src),
                         Append(acc, [ch |-> Head(src), plus |-> FALSE]))

\* "." matches any character (no key holds a line terminator); any other
\* atom matches only itself.
AtomMatches(ch, c) == ch = "." \/ ch = c

\* Backtracking match of atoms[i..] against s[j..]; anchored at the end.
RECURSIVE MatchFrom(_, _, _, _)
MatchFrom(atoms, i, s, j) ==
    IF i > Len(atoms) THEN j = Len(s) + 1
    ELSE IF atoms[i].plus
         THEN \E n \in 1..(Len(s) - j + 1) :
                  /\ \A m \in 0..(n - 1) : AtomMatches(atoms[i].ch, s[j + m])
                  /\ MatchFrom(atoms, i + 1, s, j + n)
         ELSE /\ j <= Len(s)
              /\ AtomMatches(atoms[i].ch, s[j])
              /\ MatchFrom(atoms, i + 1, s, j + 1)

\* new RegExp(`^${filePath}$`)
ExactKeyRegExp(filePath) == ParseAtoms(filePath, <<>>)

\* pattern.test(key) for a pattern anchored with ^ and $
RegExpTest(pattern, key) == MatchFrom(pattern, 1, key, 1)

----------------------------------------------------------------------------
(* Map<string, CacheEntry<T>> in insertion order *)

MapHas(c, key) == \E i \in DOMAIN c : c[i].key = key
MapIndex(c, key) == CHOOSE i \in DOMAIN c : c[i].key = key
MapGet(c, key) == c[MapIndex(c, key)]
MapDelete(c, key) == SelectSeq(c, LAMBDA e : e.key # key)
\* (variant: an existing key keeps its old entry)
MapSetKeepsOld(c, key, entry) ==
    IF MapHas(c, key) THEN c ELSE Append(c, entry)

MapSet(c, key, entry) ==
    IF MapHas(c, key) THEN [c EXCEPT ![MapIndex(c, key)] = entry]
    ELSE Append(c, entry)
MapKeys(c) == {c[i].key : i \in DOMAIN c}

----------------------------------------------------------------------------
(* SmartCache *)

\* (variant: an entry expiring exactly now is still served)
IsExpiredStrict(entry, t) == entry.expiry < t

IsExpired(entry, t) == entry.expiry <= t

\* (variant: set does not sweep)
PruneNothing(c, t) == c

\* prune(): delete every expired entry
Prune(c, t) == SelectSeq(c, LAMBDA e : ~IsExpired(e, t))

\* (variant: the scan keeps the most recently used entry instead)
NewestIndex(c) ==
    CHOOSE i \in DOMAIN c :
        /\ \A j \in DOMAIN c : c[i].lastAccessed >= c[j].lastAccessed
        /\ \A j \in 1..(i - 1) : c[j].lastAccessed < c[i].lastAccessed

\* evictLRU(): the first entry, in iteration order, whose lastAccessed is
\* strictly below every earlier one and not above any later one
OldestIndex(c) ==
    CHOOSE i \in DOMAIN c :
        /\ \A j \in DOMAIN c : c[i].lastAccessed <= c[j].lastAccessed
        /\ \A j \in 1..(i - 1) : c[j].lastAccessed > c[i].lastAccessed

EvictLRU(c) ==
    IF c = <<>> THEN c ELSE MapDelete(c, c[OldestIndex(c)].key)

\* (variant: customTTL || this.ttl, a zero override counts as omitted)
EntryTTLFalsy(customTTL, defaultTTL) ==
    IF customTTL # Undefined /\ customTTL # 0 THEN customTTL ELSE defaultTTL

EntryTTL(customTTL, defaultTTL) ==
    IF customTTL # Undefined THEN customTTL ELSE defaultTTL

NeedsRoom(c, key, capacity) == Len(c) >= capacity /\ ~MapHas(c, key)

\* set(key, value, customTTL): the key evictLRU deletes, if any
CacheSetEvicted(c, key, t, capacity) ==
    LET pruned == Prune(c, t)
    IN  IF NeedsRoom(pruned, key, capacity) /\ pruned # <<>>
        THEN pruned[OldestIndex(pruned)].key ELSE <<>>

\* set(key, value, customTTL): the Map afterwards
CacheSet(c, key, value, customTTL, t, capacity, defaultTTL) ==
    LET pruned == Prune(c, t)
        entry == [key |-> key, value |-> value,
                  expiry |-> t + EntryTTL(customTTL, defaultTTL),
                  lastAccessed |-> t]
        room == IF NeedsRoom(pruned, key, capacity)
                THEN EvictLRU(pruned) ELSE pruned
    IN  MapSet(room, key, entry)

\* get(key): what it returns, and the Map afterwards
GetHit(c, key, t) == MapHas(c, key) /\ ~IsExpired(MapGet(c, key), t)

CacheGetValue(c, key, t) ==
    IF GetHit(c, key, t) THEN MapGet(c, key).value ELSE NoVal

\* (variant: an expired entry is reported absent but left in the Map)
CacheGetMapKeepsExpired(c, key, t) ==
    IF GetHit(c, key, t)
    THEN [c EXCEPT ![MapIndex(c, key)].lastAccessed = t] ELSE c

\* (variant: a read extends the life of the entry)
CacheGetMapSliding(c, key, t) ==
    IF ~MapHas(c, key) THEN c
    ELSE IF IsExpired(MapGet(c, key), t) THEN MapDelete(c, key)
    ELSE [c EXCEPT ![MapIndex(c, key)].lastAccessed = t,
                   ![MapIndex(c, key)].expiry = t + ttl]

CacheGetMap(c, key, t) ==
    IF ~MapHas(c, key) THEN c
    ELSE IF IsExpired(MapGet(c, key), t) THEN MapDelete(c, key)
    ELSE [c EXCEPT ![MapIndex(c, key)].lastAccessed = t]

\* (variant: only the entries that have not expired are counted)
CacheSizeLive(c) == Len(SelectSeq(c, LAMBDA e : e.expiry > now))

\* size(): this.cache.size
CacheSize(c) == Len(c)

\* (variant: an entry expiring exactly now still counts as present)
CacheHasValueStrict(c, key, t) == MapHas(c, key) /\ ~(MapGet(c, key).expiry < t)

\* has(key)
CacheHasValue(c, key, t) == MapHas(c, key) /\ ~(MapGet(c, key).expiry <= t)

\* (variant: a successful has counts as an access)
CacheHasMapTouches(c, key, t) ==
    IF ~MapHas(c, key) THEN c
    ELSE IF MapGet(c, key).expiry <= t THEN MapDelete(c, key)
    ELSE [c EXCEPT ![MapIndex(c, key)].lastAccessed = t]

CacheHasMap(c, key, t) ==
    IF MapHas(c, key) /\ MapGet(c, key).expiry <= t
    THEN MapDelete(c, key) ELSE c

\* invalidatePattern(pattern)
InvalidatePatternMap(c, pattern) ==
    SelectSeq(c, LAMBDA e : ~RegExpTest(pattern, e.key))

InvalidatePatternCount(c, pattern) ==
    Cardinality({i \in DOMAIN c : RegExpTest(pattern, c[i].key)})

\* pattern.test(key) on a RegExp object that may carry the g flag: the search
\* starts at lastIndex, ^ matches at index 0 only, and lastIndex becomes the
\* end of the match, or 0 when the search fails
RegExpExec(pattern, global, lastIndex, key) ==
    LET start == IF global THEN lastIndex ELSE 0
        found == start = 0 /\ RegExpTest(pattern, key)
    IN  [found |-> found,
         lastIndex |-> IF ~global THEN lastIndex
                       ELSE IF found THEN Len(key) ELSE 0]

\* the loop of invalidatePattern over cache.keys(), one RegExp object tested
\* against each key in insertion order: the Map left and the count returned
RECURSIVE InvalidateScan(_, _, _, _)
InvalidateScan(c, pattern, global, lastIndex) ==
    IF c = <<>> THEN [map |-> <<>>, count |-> 0]
    ELSE LET r == RegExpExec(pattern, global, lastIndex, Head(c).key)
             rest == InvalidateScan(Tail(c), pattern, global, r.lastIndex)
         IN  IF r.found
             THEN [map |-> rest.map, count |-> rest.count + 1]
             ELSE [map |-> <<Head(c)>> \o rest.map, count |-> rest.count]

----------------------------------------------------------------------------
(* The record of the last call: its operation and key, what it returned    *)
(* (ret, val, count), how many entries it deleted from the Map, the key    *)
(* evictLRU deleted, and whether the underlying file read was performed.   *)

Removed(before, after) == Cardinality(MapKeys(before) \ MapKeys(after))

Call(op, key, ret, val, count, removed, evicted, io) ==
    [op |-> op, key |-> key, ret |-> ret, val |-> val, count |-> count,
     removed |-> removed, evicted |-> evicted, io |-> io]

NoCall == Call("none", <<>>, "void", NoVal, 0, 0, <<>>, FALSE)

----------------------------------------------------------------------------
(* The clock *)

TickDeltas == {d \in {1, ttl - 1} : d >= 1}

Tick ==
    /\ ticks < MaxTicks
    /\ \E d \in TickDeltas : now' = now + d
    /\ ticks' = ticks + 1
    /\ UNCHANGED <<pending, cache, maxSize, ttl, contextDir, files, last>>

----------------------------------------------------------------------------
(* SmartCache used directly *)

Set(key, value, customTTL) ==
    /\ cache' = CacheSet(cache, key, value, customTTL, now, maxSize, ttl)
    /\ last' = Call("set", key, "void", value, 0, Removed(cache, cache'),
                    CacheSetEvicted(cache, key, now, maxSize), FALSE)
    /\ UNCHANGED <<pending, maxSize, ttl, now, ticks, contextDir, files>>

Get(key) ==
    /\ cache' = CacheGetMap(cache, key, now)
    /\ last' = Call("get", key,
                    IF GetHit(cache, key, now) THEN "value" ELSE "null",
                    CacheGetValue(cache, key, now), 0,
                    Removed(cache, cache'), <<>>, FALSE)
    /\ UNCHANGED <<pending, maxSize, ttl, now, ticks, contextDir, files>>

Has(key) ==
    /\ cache' = CacheHasMap(cache, key, now)
    /\ last' = Call("has", key,
                    IF CacheHasValue(cache, key, now) THEN "true" ELSE "false",
                    NoVal, 0, Removed(cache, cache'), <<>>, FALSE)
    /\ UNCHANGED <<pending, maxSize, ttl, now, ticks, contextDir, files>>

\* invalidatePattern(new RegExp(`^${key}$`, global ? "g" : ""))
InvalidatePattern(key, global) ==
    /\ ExactKeyRegExp(key) # SyntaxError
    /\ cache' = InvalidateScan(cache, ExactKeyRegExp(key), global, 0).map
    /\ last' = Call("invalidatePattern", key, "count", NoVal,
                    InvalidateScan(cache, ExactKeyRegExp(key), global, 0).count,
                    Removed(cache, cache'), <<>>, FALSE)
    /\ UNCHANGED <<pending, maxSize, ttl, now, ticks, contextDir, files>>

Size ==
    /\ last' = Call("size", <<>>, "count", NoVal, CacheSize(cache), 0, <<>>,
                    FALSE)
    /\ UNCHANGED <<pending, cache, maxSize, ttl, now, ticks, contextDir, files>>

Clear ==
    /\ cache' = <<>>
    /\ last' = Call("clear", <<>>, "void", NoVal, 0, Removed(cache, cache'),
                    <<>>, FALSE)
    /\ UNCHANGED <<pending, maxSize, ttl, now, ticks, contextDir, files>>

----------------------------------------------------------------------------
(* The storage collaborator (utils.ts over fs/promises) *)

\* path.join(contextDir, name)
PathJoin(dir, name) == dir \o <<"/">> \o name

Paths == {PathJoin(contextDir, name) : name \in FileNames}

\* readFile: throws when fs.readFile fails (missing file, or an I/O fault)
ReadFails(fs, filePath, fault) == fs[filePath] = Absent \/ fault

\* writeFile / appendFile: the file system afterwards
WrittenFiles(fs, filePath, content) == [fs EXCEPT ![filePath] = content]

AppendedFiles(fs, filePath, content) ==
    [fs EXCEPT ![filePath] =
        IF fs[filePath] = Absent THEN content ELSE fs[filePath] \o content]

FileLen(fs, filePath) == IF fs[filePath] = Absent THEN 0 ELSE Len(fs[filePath])

----------------------------------------------------------------------------
(* ContextManager: cached file I/O.  Each call runs to completion; the      *)
(* underlying read takes ioTime on the clock.                              *)

IoTimes == {0, 1}

\* (variant: the cache is never trusted)
IsCachedNever(c, filePath, t) == FALSE

\* the test of _readFile: cachedContent !== null
IsCached(c, filePath, t) == GetHit(c, filePath, t)

\* (variant: the entry is stored with a zero TTL)
FileCacheSetNoTTL(c, filePath, fileContent, t) ==
    CacheSet(c, filePath, fileContent, 0, t, maxSize, ttl)

\* fileCache.set(filePath, fileContent)
FileCacheSet(c, filePath, fileContent, t) ==
    CacheSet(c, filePath, fileContent, Undefined, t, maxSize, ttl)

\* fileCache.invalidatePattern(new RegExp(`^${filePath}$`))
InvalidateFile(c, filePath) ==
    InvalidatePatternMap(c, ExactKeyRegExp(filePath))

\* (variant: a failed read is cached as empty text)
AfterFailedReadCachesEmpty(c, filePath, t) ==
    CacheSet(CacheGetMap(c, filePath, t), filePath, NoVal, Undefined, t,
             maxSize, ttl)

\* the Map after an underlying read that threw
AfterFailedRead(c, filePath, t) == CacheGetMap(c, filePath, t)

ReadFile(filePath) ==
    IF IsCached(cache, filePath, now)
    THEN /\ cache' = CacheGetMap(cache, filePath, now)
         /\ last' = Call("read", filePath, "value",
                         CacheGetValue(cache, filePath, now), 0, 0, <<>>, FALSE)
         /\ UNCHANGED <<pending, maxSize, ttl, now, ticks, contextDir, files>>
    ELSE \E fault \in BOOLEAN, ioTime \in IoTimes :
         /\ ticks + ioTime <= MaxTicks
         /\ now' = now + ioTime
         /\ ticks' = ticks + ioTime
         /\ IF ReadFails(files, filePath, fault)
            THEN /\ cache' = AfterFailedRead(cache, filePath, now)
                 /\ last' = Call("read", filePath, "error", NoVal, 0,
                                 Removed(cache, cache'), <<>>, TRUE)
            ELSE /\ cache' = FileCacheSet(CacheGetMap(cache, filePath, now),
                                          filePath, files[filePath], now')
                 /\ last' = Call("read", filePath, "value", files[filePath],
                                 0, Removed(cache, cache'), <<>>, TRUE)
         /\ UNCHANGED <<pending, maxSize, ttl, contextDir, files>>

\* (variant: the entry is dropped before the write is attempted)
AfterFailedWriteInvalidates(c, filePath) ==
    SelectSeq(c, LAMBDA e : e.key # filePath)

\* the Map after an underlying write or append that threw: the await
\* rejects before invalidatePattern is reached
AfterFailedWrite(c, filePath) == c

WriteFile(filePath, content) ==
    \E fault \in BOOLEAN :
    /\ IF fault
       THEN /\ cache' = AfterFailedWrite(cache, filePath)
            /\ last' = Call("write", filePath, "error", NoVal, 0,
                            Removed(cache, cache'), <<>>, FALSE)
            /\ UNCHANGED files
       ELSE /\ files' = WrittenFiles(files, filePath, content)
            /\ IF ExactKeyRegExp(filePath) = SyntaxError
               THEN /\ last' = Call("write", filePath, "error", NoVal, 0, 0,
                                    <<>>, FALSE)
                    /\ UNCHANGED cache
               ELSE /\ cache' = InvalidateFile(cache, filePath)
                    /\ last' = Call("write", filePath, "ok", NoVal, 0,
                                    Removed(cache, cache'), <<>>, FALSE)
    /\ UNCHANGED <<pending, maxSize, ttl, now, ticks, contextDir>>

AppendFile(filePath, content) ==
    \E fault \in BOOLEAN :
    /\ FileLen(files, filePath) + Len(content) <= MaxFileLen
    /\ IF fault
       THEN /\ cache' = AfterFailedWrite(cache, filePath)
            /\ last' = Call("append", filePath, "error", NoVal, 0,
                            Removed(cache, cache'), <<>>, FALSE)
            /\ UNCHANGED files
       ELSE /\ files' = AppendedFiles(files, filePath, content)
            /\ IF ExactKeyRegExp(filePath) = SyntaxError
               THEN /\ last' = Call("append", filePath, "error", NoVal, 0, 0,
                                    <<>>, FALSE)
                    /\ UNCHANGED cache
               ELSE /\ cache' = InvalidateFile(cache, filePath)
                    /\ last' = Call("append", filePath, "ok", NoVal, 0,
                                    Removed(cache, cache'), <<>>, FALSE)
    /\ UNCHANGED <<pending, maxSize, ttl, now, ticks, contextDir>>

----------------------------------------------------------------------------
(* ContextManager.updateContext and loadContext.  A step of a handler maps *)
(* the file system and the Map of fileCache to a record [fs, cache, ok,    *)
(* errors, val]: the two afterwards, whether the promise resolved, the     *)
(* messages of the errors it may have rejected with, and the text read.    *)

ContextPaths ==
    {PathJoin(contextDir, name) :
        name \in ContextFileNames \cup {PatternsDir, PatternMd}}

\* path.basename(filePath)
Basename(filePath) ==
    LET i == CHOOSE i \in 0..Len(filePath) :
                 /\ i = 0 \/ filePath[i] = "/"
                 /\ \A j \in (i + 1)..Len(filePath) : filePath[j] # "/"
    IN  SubSeq(filePath, i + 1, Len(filePath))

\* the messages of the errors thrown
CouldNotRead(filePath) == <<"Could not read file: ">> \o Basename(filePath)
CouldNotWrite(filePath) == <<"Could not write to file: ">> \o Basename(filePath)
CouldNotAppend(filePath) ==
    <<"Could not append to file: ">> \o Basename(filePath)
InvalidRegExp == <<"Invalid regular expression">>
FsError == <<"EIO">>

\* fileExists(filePath): true when fs.access resolves, false when it rejects
\* for whatever reason
FileExists(fs, filePath, accessFault) == fs[filePath] # Absent /\ ~accessFault

\* _writeFile(filePath, content), the underlying write failing or not
WriteOutcome(fs, c, filePath, content, fault) ==
    IF fault
    THEN [fs |-> fs, cache |-> AfterFailedWrite(c, filePath), ok |-> FALSE,
          errors |-> {CouldNotWrite(filePath)}, val |-> NoVal]
    ELSE IF ExactKeyRegExp(filePath) = SyntaxError
    THEN [fs |-> WrittenFiles(fs, filePath, content), cache |-> c,
          ok |-> FALSE, errors |-> {InvalidRegExp}, val |-> NoVal]
    ELSE [fs |-> WrittenFiles(fs, filePath, content),
          cache |-> InvalidateFile(c, filePath), ok |-> TRUE,
          errors |-> {}, val |-> NoVal]

\* _appendFile(filePath, content), the underlying append failing or not
AppendOutcome(fs, c, filePath, content, fault) ==
    IF fault
    THEN [fs |-> fs, cache |-> AfterFailedWrite(c, filePath), ok |-> FALSE,
          errors |-> {CouldNotAppend(filePath)}, val |-> NoVal]
    ELSE IF ExactKeyRegExp(filePath) = SyntaxError
    THEN [fs |-> AppendedFiles(fs, filePath, content), cache |-> c,
          ok |-> FALSE, errors |-> {InvalidRegExp}, val |-> NoVal]
    ELSE [fs |-> AppendedFiles(fs, filePath, content),
          cache |-> InvalidateFile(c, filePath), ok |-> TRUE,
          errors |-> {}, val |-> NoVal]

\* _readFile(filePath): the cache is asked at time t, the file answers at t2
ReadOutcome(fs, c, filePath, fault, t, t2) ==
    IF IsCached(c, filePath, t)
    THEN [fs |-> fs, cache |-> CacheGetMap(c, filePath, t), ok |-> TRUE,
          errors |-> {}, val |-> CacheGetValue(c, filePath, t)]
    ELSE IF ReadFails(fs, filePath, fault)
    THEN [fs |-> fs, cache |-> AfterFailedRead(c, filePath, t), ok |-> FALSE,
          errors |-> {CouldNotRead(filePath)}, val |-> NoVal]
    ELSE [fs |-> fs,
          cache |-> FileCacheSet(CacheGetMap(c, filePath, t), filePath,
                                 fs[filePath], t2),
          ok |-> TRUE, errors |-> {}, val |-> fs[filePath]]

\* fs.mkdir(path.join(contextDir, 'patterns'), { recursive: true })
MadeDirectory(fs, dirPath) ==
    IF fs[dirPath] = Absent THEN [fs EXCEPT ![dirPath] = Directory] ELSE fs

\* (variant: the template is written whether or not the file exists)
EnsureContextStructureAlways(fs, c, dir, mkdirFault, accessFault, dnaFault) ==
    IF mkdirFault
    THEN [fs |-> fs, cache |-> c, ok |-> FALSE, errors |-> {FsError},
          val |-> NoVal]
    ELSE WriteOutcome(MadeDirectory(fs, PathJoin(dir, PatternsDir)), c,
                      PathJoin(dir, ProjectDnaMd), DefaultProjectDNA, dnaFault)

\* ensureContextStructure(): mkdir of the patterns directory, then the
\* default PROJECT_DNA.md unless fileExists answers true
EnsureContextStructure(fs, c, dir, mkdirFault, accessFault, dnaFault) ==
    IF mkdirFault
    THEN [fs |-> fs, cache |-> c, ok |-> FALSE, errors |-> {FsError},
          val |-> NoVal]
    ELSE IF FileExists(fs, PathJoin(dir, ProjectDnaMd), accessFault)
    THEN [fs |-> MadeDirectory(fs, PathJoin(dir, PatternsDir)), cache |-> c,
          ok |-> TRUE, errors |-> {}, val |-> NoVal]
    ELSE WriteOutcome(MadeDirectory(fs, PathJoin(dir, PatternsDir)), c,
                      PathJoin(dir, ProjectDnaMd), DefaultProjectDNA, dnaFault)

\* Promise.all of updateCurrentStateFile, updateActiveContextFile and
\* logSessionToFile.  The three run to their end whichever of them rejects;
\* they touch different files and delete from the Map, so every order of
\* their steps leaves the state computed here.  The text each one writes is
\* its template filled from args, abbreviated to args.summary.
UpdateAll(fs, c, dir, summary, faults) ==
    LET a == WriteOutcome(fs, c, PathJoin(dir, CurrentStateMd), summary,
                          faults[CurrentStateMd])
        b == WriteOutcome(a.fs, a.cache, PathJoin(dir, ActiveContextMd),
                          summary, faults[ActiveContextMd])
        d == AppendOutcome(b.fs, b.cache, PathJoin(dir, SessionLogMd),
                           summary, faults[SessionLogMd])
    IN  [fs |-> d.fs, cache |-> d.cache, ok |-> a.ok /\ b.ok /\ d.ok,
         errors |-> a.errors \cup b.errors \cup d.errors, val |-> NoVal]

\* the try / catch of updateContext: the success text, or the text
\* "Context update failed: " followed by the message of the error caught
UpdateResult(ok) == IF ok THEN "ok" ELSE "error"

\* updateContext(args), fs.access answering wrongly (accessFault) or not.
\* Promise.all rejects with the error of whichever update rejects first.
UpdateContextWith(summary, accessFault) ==
    \E mkdirFault \in BOOLEAN, dnaFault \in BOOLEAN,
       faults \in [UpdatedFileNames -> BOOLEAN] :
    /\ FileLen(files, PathJoin(contextDir, SessionLogMd)) + Len(summary)
          <= MaxFileLen
    \* the fault of an operation that is never started is not a choice
    /\ accessFault => (~mkdirFault /\ FileExists(files, PathJoin(contextDir, ProjectDnaMd), FALSE))
    /\ dnaFault => /\ ~mkdirFault
                   /\ ~FileExists(files, PathJoin(contextDir, ProjectDnaMd),
                                  accessFault)
    /\ (mkdirFault \/ dnaFault) => \A name \in UpdatedFileNames : ~faults[name]
    /\ LET ensured == EnsureContextStructure(files, cache, contextDir,
                                             mkdirFault, accessFault, dnaFault)
           updated == UpdateAll(ensured.fs, ensured.cache, contextDir,
                                summary, faults)
           done == IF ensured.ok THEN updated ELSE ensured
       IN  /\ files' = done.fs
           /\ cache' = done.cache
           /\ \E text \in (IF done.ok THEN {summary} ELSE done.errors) :
                 last' = Call("updateContext", <<>>, UpdateResult(done.ok),
                              text, 0, Removed(cache, cache'), <<>>, FALSE)
    /\ UNCHANGED <<pending, maxSize, ttl, now, ticks, contextDir>>

UpdateContext(summary) ==
    \E accessFault \in BOOLEAN : UpdateContextWith(summary, accessFault)

\* readAllPatterns(): nothing when fileExists says there is no patterns
\* directory; otherwise readdir and stat, which may fail, then _readFile of
\* every .md file found
ReadAllPatterns(fs, c, dir, accessFault, listFault, fault, t) ==
    IF ~FileExists(fs, PathJoin(dir, PatternsDir), accessFault)
    THEN [fs |-> fs, cache |-> c, ok |-> TRUE, errors |-> {}, val |-> NoVal]
    ELSE IF listFault
    THEN [fs |-> fs, cache |-> c, ok |-> FALSE, errors |-> {FsError},
          val |-> NoVal]
    ELSE IF fs[PathJoin(dir, PatternMd)] = Absent
    THEN [fs |-> fs, cache |-> c, ok |-> TRUE, errors |-> {}, val |-> NoVal]
    ELSE ReadOutcome(fs, c, PathJoin(dir, PatternMd), fault, t, t)

\* (variant: loadContext without its catch)
LoadResultRejects(ok) == IF ok THEN "context" ELSE "reject"

\* the try / catch of loadContext: the formatted context, or the
\* "Context not found" guidance
LoadResult(ok) == IF ok THEN "context" ELSE "notFound"

\* does _readFile(filePath) go to the file system
GoesToFile(fs, c, filePath, t) ==
    ~IsCached(c, filePath, t) /\ fs[filePath] # Absent

\* loadContext(focus): Promise.all of the reads of PROJECT_DNA.md and
\* CURRENT_STATE.md and of readAllPatterns.  Both _readFile calls ask the
\* cache before anything is awaited; the answers of the files are stored
\* afterwards.  All three run to their end whichever of them rejects.  The
\* calls of one session fall within the TTL of fileCache, so the clock is
\* left where it is.
LoadContext ==
    \E faults \in [{ProjectDnaMd, CurrentStateMd, PatternMd} -> BOOLEAN],
       accessFault \in BOOLEAN, listFault \in BOOLEAN :
    LET dnaPath == PathJoin(contextDir, ProjectDnaMd)
        statePath == PathJoin(contextDir, CurrentStateMd)
        patternPath == PathJoin(contextDir, PatternMd)
        hasDir == FileExists(files, PathJoin(contextDir, PatternsDir), FALSE)
        dna == ReadOutcome(files, cache, dnaPath, faults[ProjectDnaMd],
                           now, now)
        state == ReadOutcome(files, cache, statePath,
                             faults[CurrentStateMd], now, now)
        asked == CacheGetMap(CacheGetMap(cache, dnaPath, now),
                             statePath, now)
        dnaRead == IF dna.ok /\ ~IsCached(cache, dnaPath, now)
                   THEN FileCacheSet(asked, dnaPath, files[dnaPath], now)
                   ELSE asked
        stateRead == IF state.ok /\ ~IsCached(cache, statePath, now)
                     THEN FileCacheSet(dnaRead, statePath,
                                       files[statePath], now)
                     ELSE dnaRead
        patterns == ReadAllPatterns(files, stateRead, contextDir,
                                    accessFault, listFault,
                                    faults[PatternMd], now)
        ok == dna.ok /\ state.ok /\ patterns.ok
    IN  \* the fault of an operation that is never started is not a choice
        /\ faults[ProjectDnaMd] => GoesToFile(files, cache, dnaPath, now)
        /\ faults[CurrentStateMd] => GoesToFile(files, cache, statePath, now)
        /\ accessFault => hasDir
        /\ listFault => (hasDir /\ ~accessFault)
        /\ faults[PatternMd] =>
              /\ hasDir /\ ~accessFault /\ ~listFault
              /\ GoesToFile(files, stateRead, patternPath, now)
        /\ cache' = patterns.cache
        /\ last' = Call("loadContext", <<>>, LoadResult(ok),
                        IF ok THEN dna.val \o state.val \o patterns.val
                        ELSE NoVal,
                        0, Removed(cache, cache'), <<>>, TRUE)
        /\ UNCHANGED <<pending, maxSize, ttl, now, ticks, contextDir, files>>

----------------------------------------------------------------------------
(* ContextManager: cached file I/O with calls in flight.  A call that      *)
(* reaches its await is suspended; the file system carries the operation   *)
(* out at some later point, and the call resumes at some point after       *)
(* that.  Calls resume in any order.                                       *)

InFlight(id, op, key, text, phase) ==
    [id |-> id, op |-> op, key |-> key, text |-> text, phase |-> phase]

FreeId == CHOOSE i \in 1..MaxInFlight : \A o \in pending : o.id # i

\* _readFile(filePath) up to its await: served from the cache, or suspended
BeginRead(filePath) ==
    /\ IF IsCached(cache, filePath, now)
       THEN /\ last' = Call("read", filePath, "value",
                            CacheGetValue(cache, filePath, now), 0, 0, <<>>,
                            FALSE)
            /\ UNCHANGED pending
       ELSE /\ Cardinality(pending) < MaxInFlight
            /\ pending' = pending \cup
                  {InFlight(FreeId, "read", filePath, NoVal, "started")}
            /\ UNCHANGED last
    /\ cache' = CacheGetMap(cache, filePath, now)
    /\ UNCHANGED <<maxSize, ttl, now, ticks, contextDir, files>>

\* _writeFile / _appendFile(filePath, content) up to its await
BeginWrite(op, filePath, content) ==
    /\ Cardinality(pending) < MaxInFlight
    /\ op = "append" =>
          FileLen(files, filePath)
            + Len(content) * (1 + Cardinality({o \in pending :
                                  o.op = "append" /\ o.key = filePath}))
            <= MaxFileLen
    /\ pending' = pending \cup
          {InFlight(FreeId, op, filePath, content, "started")}
    /\ UNCHANGED <<cache, maxSize, ttl, now, ticks, contextDir, files, last>>

\* fs.readFile / fs.writeFile / fs.appendFile carried out for a suspended
\* call
FileSystemStep(o) ==
    \E fault \in BOOLEAN :
    /\ o.phase = "started"
    /\ IF o.op = "read"
       THEN /\ pending' = (pending \ {o}) \cup
                  {IF ReadFails(files, o.key, fault)
                   THEN InFlight(o.id, o.op, o.key, NoVal, "failed")
                   ELSE InFlight(o.id, o.op, o.key, files[o.key], "answered")}
            /\ UNCHANGED files
       ELSE IF fault
       THEN /\ pending' = (pending \ {o}) \cup
                  {InFlight(o.id, o.op, o.key, o.text, "failed")}
            /\ UNCHANGED files
       ELSE /\ pending' = (pending \ {o}) \cup
                  {InFlight(o.id, o.op, o.key, o.text, "answered")}
            /\ files' = IF o.op = "write"
                        THEN WrittenFiles(files, o.key, o.text)
                        ELSE AppendedFiles(files, o.key, o.text)
    /\ UNCHANGED <<cache, maxSize, ttl, now, ticks, contextDir, last>>

\* the call continues after its await: _readFile stores what it read,
\* _writeFile / _appendFile invalidate
Resume(o) ==
    /\ o.phase # "started"
    /\ pending' = pending \ {o}
    /\ IF o.op = "read"
       THEN IF o.phase = "failed"
            THEN /\ last' = Call("read", o.key, "error", NoVal, 0, 0, <<>>,
                                 TRUE)
                 /\ UNCHANGED cache
            ELSE /\ cache' = FileCacheSet(cache, o.key, o.text, now)
                 /\ last' = Call("read", o.key, "value", o.text, 0,
                                 Removed(cache, cache'), <<>>, TRUE)
       ELSE IF o.phase = "failed"
            THEN /\ cache' = AfterFailedWrite(cache, o.key)
                 /\ last' = Call(o.op, o.key, "error", NoVal, 0,
                                 Removed(cache, cache'), <<>>, FALSE)
            ELSE IF ExactKeyRegExp(o.key) = SyntaxError
            THEN /\ last' = Call(o.op, o.key, "error", NoVal, 0, 0, <<>>,
                                 FALSE)
                 /\ UNCHANGED cache
            ELSE /\ cache' = InvalidateFile(cache, o.key)
                 /\ last' = Call(o.op, o.key, "ok", NoVal, 0,
                                 Removed(cache, cache'), <<>>, FALSE)
    /\ UNCHANGED <<maxSize, ttl, now, ticks, contextDir, files>>

----------------------------------------------------------------------------
(* Specifications *)

\* A SmartCache constructed with any capacity and default TTL, used directly.
InitCache ==
    /\ cache = <<>>
    /\ maxSize \in 0..MaxCapacity
    /\ ttl \in DefaultTTLs
    /\ now = 0
    /\ ticks = 0
    /\ contextDir = DirPlain
    /\ files = [f \in Paths |-> Absent]
    /\ last = NoCall
    /\ pending = {}

NextCache ==
    \/ Tick
    \/ \E key \in Keys, value \in Values, customTTL \in CustomTTLs :
           Set(key, value, customTTL)
    \/ \E key \in Keys : Get(key)
    \/ \E key \in Keys : Has(key)
    \/ \E key \in Keys, global \in BOOLEAN : InvalidatePattern(key, global)
    \/ Size
    \/ Clear

SpecCache == InitCache /\ [][NextCache]_vars

\* A ContextManager constructed in some working directory, before any
\* context file exists; its fileCache is reached only through the cached I/O.
Init ==
    /\ cache = <<>>
    /\ maxSize = FileCacheMaxSize
    /\ ttl = FileCacheTTL
    /\ now = 0
    /\ ticks = 0
    /\ contextDir \in ContextDirs
    /\ files = [f \in Paths |-> Absent]
    /\ last = NoCall
    /\ pending = {}

Next ==
    \/ Tick
    \/ \E filePath \in Paths : ReadFile(filePath)
    \/ \E filePath \in Paths, content \in Texts : WriteFile(filePath, content)
    \/ \E filePath \in Paths, content \in Texts : AppendFile(filePath, content)

Spec == Init /\ [][Next]_vars

\* A ContextManager constructed in some working directory whose .context
\* holds at most a PROJECT_DNA.md and a pattern file written by the user.
InitContext ==
    /\ cache = <<>>
    /\ maxSize = FileCacheMaxSize
    /\ ttl = FileCacheTTL
    /\ now = 0
    /\ ticks = 0
    /\ contextDir \in ContextDirs
    /\ \E dna \in {Absent, UserProjectDNA},
          patterns \in {<<Absent, Absent>>, <<Directory, Absent>>,
                        <<Directory, TokenB>>} :
           files = [f \in ContextPaths |->
                      IF f = PathJoin(contextDir, ProjectDnaMd) THEN dna
                      ELSE IF f = PathJoin(contextDir, PatternsDir)
                      THEN patterns[1]
                      ELSE IF f = PathJoin(contextDir, PatternMd)
                      THEN patterns[2]
                      ELSE Absent]
    /\ last = NoCall
    /\ pending = {}

NextContext ==
    \/ \E summary \in Texts : UpdateContext(summary)
    \/ LoadContext

SpecContext == InitContext /\ [][NextContext]_vars

\* A ContextManager in a directory whose path has no RegExp metacharacter
\* but the "." of the file names, its calls overlapping.
InitInFlight ==
    /\ cache = <<>>
    /\ maxSize = FileCacheMaxSize
    /\ ttl = FileCacheTTL
    /\ now = 0
    /\ ticks = 0
    /\ contextDir = DirPlain
    /\ files = [f \in Paths |-> Absent]
    /\ last = NoCall
    /\ pending = {}

NextInFlight ==
    \/ \E filePath \in Paths : BeginRead(filePath)
    \/ \E op \in {"write", "append"}, filePath \in Paths, content \in Texts :
           BeginWrite(op, filePath, content)
    \/ \E o \in pending : FileSystemStep(o)
    \/ \E o \in pending : Resume(o)

SpecInFlight == InitInFlight /\ [][NextInFlight]_vars

----------------------------------------------------------------------------
(* Properties of SmartCache, checked under SpecCache *)

EntriesOf(c) == {c[i] : i \in DOMAIN c}

\* the entries that survive an expiry sweep at time t
Live(c, t) == SelectSeq(c, LAMBDA e : e.expiry > t)

\* C1: immediately after every set call returns, the number of stored
\* entries is at most the configured capacity, for any configured capacity.
C1_CapacityBound == last.op = "set" => Len(cache) <= maxSize

\* the bound of C1 for the capacities at which it holds
CapacityBoundFromOne == (last.op = "set" /\ maxSize >= 1) => Len(cache) <= maxSize

\* C2: a get(k) executed at a time now >= expiresAt(k) returns null, never
\* the stored value; whenever get(k) returns a value, it is the stored value
\* of an entry with now < expiresAt(k) at the call.
C2_NoExpiredValue ==
    [][\A k \in Keys :
         (last'.op = "get" /\ last'.key = k /\ Get(k)) =>
           /\ (MapHas(cache, k) /\ MapGet(cache, k).expiry <= now)
                 => (last'.ret = "null" /\ last'.val = NoVal)
           /\ last'.ret = "value"
                 => /\ MapHas(cache, k)
                    /\ now < MapGet(cache, k).expiry
                    /\ last'.val = MapGet(cache, k).value]_vars

\* a get found an expired entry, deleted it and returned null
C2_Witness ==
    /\ last.op = "get"
    /\ last.ret = "null"
    /\ last.removed = 1
    /\ ~MapHas(cache, last.key)

\* C4: whenever set(key, ...) evicts, it removes exactly one entry, whose
\* lastAccessed is <= that of every entry present after the expiry sweep;
\* every other entry present after the sweep stays, unchanged.  With two
\* entries at capacity 2, the first no more recent than the second, setting
\* a third key leaves exactly the second and the new key.
C4_LRUVictim ==
    [][\A k \in Keys :
         ( /\ last'.op = "set"
           /\ last'.key = k
           /\ \E ct \in CustomTTLs : Set(k, last'.val, ct) ) =>
           LET live == Live(cache, now)
               present == EntriesOf(live)
               victims == {e \in present :
                             e.key # k /\ ~MapHas(cache', e.key)}
           IN  /\ Cardinality(victims) <= 1
               /\ \A e \in victims : \A o \in present :
                      e.lastAccessed <= o.lastAccessed
               /\ \A e \in present \ victims :
                      e.key # k => e \in EntriesOf(cache')
               /\ ( /\ maxSize = 2
                    /\ Len(live) = 2
                    /\ ~MapHas(live, k)
                    /\ live[1].lastAccessed <= live[2].lastAccessed )
                  => MapKeys(cache') = {live[2].key, k}]_vars

\* a set at capacity 2 evicted one entry and kept the other
C4_Witness ==
    /\ last.op = "set"
    /\ last.evicted # <<>>
    /\ last.removed = 1
    /\ maxSize = 2
    /\ Len(cache) = 2
    /\ ~MapHas(cache, last.evicted)

\* C5: set(k, v) followed immediately by get(k) strictly before the entry's
\* expiresAt returns v, the value most recently set for k.
C5_SetGetRoundTrip ==
    [][\A k \in Keys :
         ( /\ last.op = "set"
           /\ last.key = k
           /\ last'.op = "get"
           /\ last'.key = k
           /\ Get(k)
           /\ MapHas(cache, k)
           /\ now < MapGet(cache, k).expiry )
         => (last'.ret = "value" /\ last'.val = last.val)]_vars

\* a get returned the value of an entry that was overwritten by a later set
\* and read after time had passed
C5_Witness ==
    /\ last.op = "get"
    /\ last.ret = "value"
    /\ last.val = TokenB
    /\ ticks > 0
    /\ MapHas(cache, last.key)
    /\ MapGet(cache, last.key).lastAccessed = now

\* the keys of c that the pattern built from key matches
Matching(c, key) ==
    {e \in EntriesOf(c) : RegExpTest(ExactKeyRegExp(key), e.key)}

\* C12: for every pattern and cache state, after invalidatePattern(p) no
\* stored key matches p, every entry whose key does not match p is still
\* present with value, expiresAt and lastAccessedAt unchanged, and the
\* returned count equals the number of entries removed (1 when exactly one
\* key matches, 0 and the store unchanged when none matches).
C12_InvalidateExactlyMatching ==
    [][\A k \in Keys, g \in BOOLEAN :
         ( /\ last'.op = "invalidatePattern"
           /\ last'.key = k
           /\ InvalidatePattern(k, g) )
         => /\ Matching(cache', k) = {}
            /\ \A e \in EntriesOf(cache) \ Matching(cache, k) :
                   e \in EntriesOf(cache')
            /\ last'.count = Len(cache) - Len(cache')
            /\ Cardinality(Matching(cache, k)) = 1 => last'.count = 1
            /\ Matching(cache, k) = {}
                   => (last'.count = 0 /\ cache' = cache)]_vars

\* the statement of C12 for RegExp objects without the g flag
InvalidateExactlyMatchingNoFlag ==
    [][\A k \in Keys :
         ( /\ last'.op = "invalidatePattern"
           /\ last'.key = k
           /\ InvalidatePattern(k, FALSE) )
         => /\ Matching(cache', k) = {}
            /\ \A e \in EntriesOf(cache) \ Matching(cache, k) :
                   e \in EntriesOf(cache')
            /\ last'.count = Len(cache) - Len(cache')
            /\ Cardinality(Matching(cache, k)) = 1 => last'.count = 1
            /\ Matching(cache, k) = {}
                   => (last'.count = 0 /\ cache' = cache)]_vars

\* C13: with a non-decreasing clock, the lastAccessed of the entry for k never
\* decreases while the entry remains present, and it changes only in a
\* get(k) that returns a value or in a set(k); has, invalidatePattern of
\* other keys and the get or set of another key never change it.
C13_RecencyTracking ==
    [][\A k \in Keys :
         (MapHas(cache, k) /\ MapHas(cache', k)) =>
           LET before == MapGet(cache, k).lastAccessed
               after == MapGet(cache', k).lastAccessed
           IN  /\ after >= before
               /\ after # before =>
                    /\ last'.key = k
                    /\ \/ /\ last'.op = "get"
                          /\ last'.ret = "value"
                          /\ Get(k)
                       \/ /\ last'.op = "set"
                          /\ \E ct \in CustomTTLs : Set(k, last'.val, ct)]_vars

\* a get moved the recency of its entry forward while another entry, stored
\* earlier, kept its older lastAccessed
C13_Witness ==
    /\ last.op = "get"
    /\ last.ret = "value"
    /\ Len(cache) = 2
    /\ MapGet(cache, last.key).lastAccessed = now
    /\ \E e \in EntriesOf(cache) : e.key # last.key /\ e.lastAccessed < now

\* C14: has(k) returns true exactly when a get(k) at the same instant would
\* return a value; has removes the entry for k when it is expired; has never
\* changes the lastAccessed, value or expiry of any entry.
C14_HasMirrorsGet ==
    [][\A k \in Keys :
         ( /\ last'.op = "has"
           /\ last'.key = k
           /\ Has(k) )
         => /\ (last'.ret = "true") <=> GetHit(cache, k, now)
            /\ (MapHas(cache, k) /\ MapGet(cache, k).expiry <= now)
                  => ~MapHas(cache', k)
            /\ EntriesOf(cache') \subseteq EntriesOf(cache)
            /\ \A e \in EntriesOf(cache) :
                   (e.key # k \/ e.expiry > now) => e \in EntriesOf(cache')
            /\ last'.ret = "true" => cache' = cache]_vars

\* has found its entry expired exactly at the current time, answered false
\* and deleted it, leaving the other entry
C14_Witness ==
    /\ last.op = "has"
    /\ last.ret = "false"
    /\ last.removed = 1
    /\ ~MapHas(cache, last.key)
    /\ Len(cache) = 1

\* C15: if an entry for k is present and now >= expiresAt(k), get(k) returns
\* absent and removes that entry, so the number of stored entries is exactly
\* one less than before the call (TTL 100 ms: set(x), 150 ms later get(x)
\* returns absent).
C15_GetRemovesExpired ==
    [][\A k \in Keys :
         ( /\ last'.op = "get"
           /\ last'.key = k
           /\ MapHas(cache, k)
           /\ now >= MapGet(cache, k).expiry
           /\ Get(k) )
         => /\ last'.ret = "null"
            /\ ~MapHas(cache', k)
            /\ Len(cache') = Len(cache) - 1
            /\ EntriesOf(cache') =
                  {e \in EntriesOf(cache) : e.key # k}]_vars

\* a get after the TTL had passed returned absent and took its entry out of
\* a store of two
C15_Witness ==
    /\ last.op = "get"
    /\ last.ret = "null"
    /\ last.removed = 1
    /\ ticks > 0
    /\ Len(cache) = 1
    /\ cache[1].key # last.key

\* C17: a get(k) that returns a value changes only the lastAccessed of k's
\* entry; its value and expiry, and every other entry, are unchanged, so the
\* entry still expires at (time of the last set) + TTL however often it is
\* read.
C17_ReadKeepsExpiry ==
    [][\A k \in Keys :
         ( /\ last'.op = "get"
           /\ last'.key = k
           /\ last'.ret = "value"
           /\ Get(k) )
         => /\ cache' = [cache EXCEPT ![MapIndex(cache, k)].lastAccessed = now]
            /\ MapGet(cache', k).expiry = MapGet(cache, k).expiry
            /\ MapGet(cache', k).value = MapGet(cache, k).value]_vars

\* an entry stored with TTL 2 was read one time unit later and still expires
\* two units after it was stored
C17_Witness ==
    /\ last.op = "get"
    /\ last.ret = "value"
    /\ ttl = 2
    /\ now > 0
    /\ MapGet(cache, last.key).lastAccessed = now
    /\ MapGet(cache, last.key).expiry = now + 1

\* C18: size() returns the raw number of stored entries, expired entries
\* that have not been removed included, and the passage of time alone never
\* changes it: the count a size() call returned is still the number of
\* stored keys however far the clock moves before the next call.
C18_SizeCountsStored ==
    last.op = "size" => last.count = Cardinality(MapKeys(cache))

\* size() counted two entries, both of them expired by the time of the call
C18_Witness ==
    /\ last.op = "size"
    /\ last.count = 2
    /\ ticks > 0
    /\ \A e \in EntriesOf(cache) : e.expiry <= now

\* the unexpired entries under another key that a step from c to d removed
EvictedBy(c, d, key, t) ==
    {e \in EntriesOf(Live(c, t)) : e.key # key /\ ~MapHas(d, e.key)}

\* C19: set(key) removes an unexpired entry other than key if and only if,
\* after the expiry sweep, the store holds at least capacity entries and key
\* is not among them; overwriting an existing key at capacity, or inserting
\* when the sweep freed a slot, evicts nothing.
C19_EvictionOnlyWhenNeeded ==
    [][\A k \in Keys :
         ( /\ last'.op = "set"
           /\ last'.key = k
           /\ \E ct \in CustomTTLs : Set(k, last'.val, ct) )
         => ( EvictedBy(cache, cache', k, now) # {}
                <=> ( /\ Len(Live(cache, now)) >= maxSize
                      /\ ~MapHas(Live(cache, now), k) ) )]_vars

\* the statement of C19 for the capacities from 1 up
EvictionOnlyWhenNeededFromOne ==
    [][\A k \in Keys :
         ( /\ last'.op = "set"
           /\ last'.key = k
           /\ maxSize >= 1
           /\ \E ct \in CustomTTLs : Set(k, last'.val, ct) )
         => ( EvictedBy(cache, cache', k, now) # {}
                <=> ( /\ Len(Live(cache, now)) >= maxSize
                      /\ ~MapHas(Live(cache, now), k) ) )]_vars

\* C20: immediately after any set(key, ...) executed at time now, every
\* stored entry other than the one just written satisfies expiresAt > now.
C20_SweepOnEverySet ==
    [][\A k \in Keys :
         ( /\ last'.op = "set"
           /\ last'.key = k
           /\ \E ct \in CustomTTLs : Set(k, last'.val, ct) )
         => \A e \in EntriesOf(cache') : e.key # k => e.expiry > now]_vars

\* a set swept an expired entry out, evicted nothing, and left an unexpired
\* entry next to the one it wrote
C20_Witness ==
    /\ last.op = "set"
    /\ last.removed = 1
    /\ last.evicted = <<>>
    /\ Len(cache) = 2
    /\ \A e \in EntriesOf(cache) : e.key # last.key => e.expiry > now

\* C21: set(key, value, ttlOverride) stores expiresAt = now + ttlOverride
\* whenever ttlOverride is supplied (0 included) and now + defaultTTL only
\* when it is omitted; an entry set with ttlOverride 0 (the only entries
\* whose expiry equals their lastAccessed) is never returned by a later get,
\* and has(key) is false for it.
C21_ExpiryComputation ==
    [][\A k \in Keys :
         /\ \A ct \in CustomTTLs :
              ( /\ last'.op = "set"
                /\ last'.key = k
                /\ Set(k, last'.val, ct) )
              => /\ MapHas(cache', k)
                 /\ MapGet(cache', k).expiry =
                      now + (IF ct = Undefined THEN ttl ELSE ct)
                 /\ ct = 0 => /\ MapGet(cache', k).expiry = now
                              /\ ~GetHit(cache', k, now)
                              /\ ~CacheHasValue(cache', k, now)
         /\ ( /\ MapHas(cache, k)
              /\ MapGet(cache, k).expiry = MapGet(cache, k).lastAccessed )
            => /\ (last'.op = "get" /\ last'.key = k /\ Get(k))
                    => last'.ret = "null"
               /\ (last'.op = "has" /\ last'.key = k /\ Has(k))
                    => last'.ret = "false"]_vars

\* with no time passed since construction, a get found the entry for its
\* key already expired: it had been stored with ttlOverride 0
C21_Witness ==
    /\ last.op = "get"
    /\ last.ret = "null"
    /\ last.removed = 1
    /\ now = 0
    /\ ticks = 0

----------------------------------------------------------------------------
(* Properties of the cached file I/O, checked under Spec *)

Unexpired(c, filePath, t) == MapHas(c, filePath) /\ MapGet(c, filePath).expiry > t

WroteOk(call) == call.op \in {"write", "append"} /\ call.ret = "ok"

\* C3: a successful write or append of k followed by read(k) returns the
\* content now held by the underlying file, even if k was cached with a
\* different value before the write.
C3_WriteThenReadFresh ==
    [][\A p \in Paths :
         ( /\ WroteOk(last)
           /\ last.key = p
           /\ last'.op = "read"
           /\ last'.key = p
           /\ last'.ret = "value"
           /\ ReadFile(p) )
         => last'.val = files[p]]_vars

\* C6: after a successful write or append of k returns, whatever characters
\* k contains, the cache holds no entry for k.
C6_WriteInvalidatesOwnKey == WroteOk(last) => ~MapHas(cache, last.key)

\* C7: a successful write or append of k removes no cache entry stored under
\* a different key and leaves every such entry unchanged.
C7_WriteInvalidatesOnlyOwnKey ==
    [][\A p \in Paths, content \in Texts :
         ( /\ WroteOk(last')
           /\ last'.key = p
           /\ WriteFile(p, content) \/ AppendFile(p, content) )
         => \A e \in EntriesOf(cache) :
                e.key # p => e \in EntriesOf(cache')]_vars

\* C8: when read(k) is called and the cache holds an unexpired entry for k,
\* read returns that cached value and the underlying read is not invoked.
C8_ReadHitNoIO ==
    [][\A p \in Paths :
         ( /\ last'.op = "read"
           /\ last'.key = p
           /\ Unexpired(cache, p, now)
           /\ ReadFile(p) )
         => /\ last'.ret = "value"
            /\ last'.val = MapGet(cache, p).value
            /\ last'.io = FALSE
            /\ now' = now
            /\ files' = files]_vars

\* a read was served from the cache, some time after the entry was stored
C8_Witness ==
    /\ last.op = "read"
    /\ last.ret = "value"
    /\ last.io = FALSE
    /\ MapHas(cache, last.key)
    /\ MapGet(cache, last.key).lastAccessed = now
    /\ MapGet(cache, last.key).expiry < now + FileCacheTTL

\* C9: when read(k) is called with no unexpired entry for k and the
\* underlying read succeeds with text t, read returns t and afterwards the
\* cache holds an entry for k with value t and expiresAt = (time of
\* insertion) + the store's configured TTL.
C9_ReadMissPopulates ==
    [][\A p \in Paths :
         ( /\ last'.op = "read"
           /\ last'.key = p
           /\ last'.ret # "error"
           /\ ~Unexpired(cache, p, now)
           /\ ReadFile(p) )
         => /\ last'.io = TRUE
            /\ files[p] # Absent
            /\ last'.ret = "value"
            /\ last'.val = files[p]
            /\ MapHas(cache', p)
            /\ MapGet(cache', p).value = files[p]
            /\ MapGet(cache', p).expiry = now' + FileCacheTTL]_vars

\* a read went to the file after the clock had advanced and cached the text
C9_Witness ==
    /\ last.op = "read"
    /\ last.ret = "value"
    /\ last.io = TRUE
    /\ now > 0
    /\ MapHas(cache, last.key)
    /\ MapGet(cache, last.key).value = files[last.key]
    /\ MapGet(cache, last.key).expiry = now + FileCacheTTL

\* C10: when the underlying read of k fails, read(k) fails and afterwards the
\* cache holds no entry for k, so a later read(k) attempts the underlying
\* read again.
C10_ReadFailureNotCached ==
    [][\A p \in Paths :
         /\ ( /\ last'.op = "read"
              /\ last'.key = p
              /\ last'.ret = "error"
              /\ ReadFile(p) )
               => (last'.io = TRUE /\ ~MapHas(cache', p))
         /\ ( /\ last.op = "read"
              /\ last.ret = "error"
              /\ last.key = p
              /\ last'.op = "read"
              /\ last'.key = p
              /\ ReadFile(p) )
               => last'.io = TRUE]_vars

\* the read of an existing file failed after its expired entry was dropped
C10_Witness ==
    /\ last.op = "read"
    /\ last.ret = "error"
    /\ last.removed = 1
    /\ files[last.key] # Absent
    /\ ~MapHas(cache, last.key)

\* C11: when the underlying write or append of k fails, the call fails and
\* every cache entry (key, value, expiresAt, lastAccessedAt) is exactly as
\* before the call: no invalidation is performed.
C11_FailedWriteKeepsCache ==
    [][\A p \in Paths, content \in Texts :
         ( /\ last'.op \in {"write", "append"}
           /\ last'.key = p
           /\ last'.ret = "error"
           /\ WriteFile(p, content) \/ AppendFile(p, content) )
         => cache' = cache]_vars

\* a write failed while its key was cached, and the entry is still there
C11_Witness ==
    /\ last.op \in {"write", "append"}
    /\ last.ret = "error"
    /\ ExactKeyRegExp(last.key) # SyntaxError
    /\ MapHas(cache, last.key)
    /\ MapGet(cache, last.key).value = files[last.key]

----------------------------------------------------------------------------
(* Properties of updateContext, checked under SpecContext *)

\* C16: one updateContext call either updates all of CURRENT_STATE.md,
\* ACTIVE_CONTEXT.md and SESSION_LOG.md and reports success, or reports
\* failure with none of the three files changed; no outcome exists in which
\* some of the three were updated and others were not.
C16_UpdateContextAtomic ==
    [][\A summary \in Texts :
         ( /\ last'.op = "updateContext"
           /\ UpdateContext(summary) )
         => LET statePath == PathJoin(contextDir, CurrentStateMd)
                activePath == PathJoin(contextDir, ActiveContextMd)
                logPath == PathJoin(contextDir, SessionLogMd)
            IN  \/ /\ last'.ret = "ok"
                   /\ files'[statePath] = summary
                   /\ files'[activePath] = summary
                   /\ files'[logPath] =
                        AppendedFiles(files, logPath, summary)[logPath]
                \/ /\ last'.ret = "error"
                   /\ files'[statePath] = files[statePath]
                   /\ files'[activePath] = files[activePath]
                   /\ files'[logPath] = files[logPath]]_vars

\* the messages an updateContext that failed may carry
UpdateErrors ==
    {FsError, InvalidRegExp,
     CouldNotWrite(PathJoin(contextDir, ProjectDnaMd)),
     CouldNotWrite(PathJoin(contextDir, CurrentStateMd)),
     CouldNotWrite(PathJoin(contextDir, ActiveContextMd)),
     CouldNotAppend(PathJoin(contextDir, SessionLogMd))}

\* can _readFile(filePath) resolve: the entry is cached or the file exists
Readable(filePath) ==
    IsCached(cache, filePath, now) \/ files[filePath] # Absent

\* C22: loadContext and updateContext never reject to the host, whatever
\* the underlying file operations do; loadContext returns the "Context not
\* found" guidance when a required read fails, and updateContext returns
\* either the success confirmation or a "Context update failed" text that
\* carries the message of the error.
C22_FailuresBecomeText ==
    [][/\ \A summary \in Texts :
            ( /\ last'.op = "updateContext"
              /\ UpdateContext(summary) )
            => \/ last'.ret = "ok" /\ last'.val = summary
               \/ last'.ret = "error" /\ last'.val \in UpdateErrors
       /\ ( /\ last'.op = "loadContext"
            /\ LoadContext )
          => LET dnaPath == PathJoin(contextDir, ProjectDnaMd)
                 statePath == PathJoin(contextDir, CurrentStateMd)
             IN  /\ last'.ret \in {"context", "notFound"}
                 /\ (~Readable(dnaPath) \/ ~Readable(statePath))
                       => (last'.ret = "notFound" /\ last'.val = NoVal)
                 /\ last'.ret = "context"
                       => (Readable(dnaPath) /\ Readable(statePath))]_vars

\* loadContext answered "Context not found" although both of its files
\* exist: a read failed and the failure came back as text
C22_Witness ==
    /\ last.op = "loadContext"
    /\ last.ret = "notFound"
    /\ files[PathJoin(contextDir, ProjectDnaMd)] # Absent
    /\ files[PathJoin(contextDir, CurrentStateMd)] # Absent

\* C24: in any sequence of updateContext and loadContext calls, a
\* PROJECT_DNA.md that exists when a call starts is never written or
\* replaced; the default template is written only when the file is absent.
C24_ExistingDnaPreserved ==
    [][LET dnaPath == PathJoin(contextDir, ProjectDnaMd)
       IN  files'[dnaPath] # files[dnaPath]
             => /\ files[dnaPath] = Absent
                /\ files'[dnaPath] = DefaultProjectDNA]_vars

\* the statement of C24 for the calls in which fs.access does not fail
ExistingDnaPreservedWhenAccessAnswers ==
    [][\A summary \in Texts :
         (UpdateContextWith(summary, FALSE) \/ LoadContext)
         => LET dnaPath == PathJoin(contextDir, ProjectDnaMd)
            IN  files'[dnaPath] # files[dnaPath]
                  => /\ files[dnaPath] = Absent
                     /\ files'[dnaPath] = DefaultProjectDNA]_vars

----------------------------------------------------------------------------
(* Properties of overlapping calls, checked under SpecInFlight *)

\* C23: for any interleaving of in-flight read(k) and write(k) / append(k)
\* calls that suspend at their underlying I/O, once all of them have
\* completed, any unexpired cache entry for k holds exactly the current
\* content of the underlying file.
C23_CoherentWhenQuiescent ==
    pending = {} =>
        \A p \in Paths :
            Unexpired(cache, p, now) => MapGet(cache, p).value = files[p]

====
